---- MODULE Spec2Model ----
(***************************************************************************)
(* Model of the control loop of src/main.py (joystick button -> mouse      *)
(* position repeater): toggle state machine, hold-based velocity           *)
(* integrator, clamp and periodic re-apply scheduler.                      *)
(*                                                                         *)
(* Time is counted in integer milliseconds (the code uses float seconds of *)
(* time.monotonic()); products nudge_velocity * dt are exact rationals     *)
(* rounded half-to-even as Python's round() does.                          *)
(***************************************************************************)
EXTENDS Integers, Sequences, FiniteSets, TLC

(***************************************************************************)
(* Bounds of the model.                                                    *)
(***************************************************************************)
MaxTime == 600          \* the clock stops advancing beyond this many ms
MaxPressTime == 400     \* the same, where press instants are tracked
MaxEvents == 2          \* events drained by one pygame.event.get()
MaxEventTime == 400     \* the clock's limit where the drained events are kept
MaxConfigTime == 200    \* the clock's limit where startup is followed
MaxCoord == 15          \* points given to clamp_target lie in -MaxCoord..MaxCoord

\* how much longer than 1/poll_hz one time.sleep() may take, in ms
SleepOvershoot == {0, 50}

(***************************************************************************)
(* Program constants.                                                      *)
(***************************************************************************)
DebounceMs == 150       \* debounce_s = 0.15
MinPollHz == 10         \* max(10, poll_hz)
MinGraceMs == 0         \* max(0, startup_grace_ms)
MinRepeatMs == 1        \* max(1, repeat_ms)
MinNudge == 1           \* max(1, nudge_velocity_px_s)
None == -1              \* Python None for an unbound button

Max(a, b) == IF a >= b THEN a ELSE b
Min(a, b) == IF a <= b THEN a ELSE b

\* Python round(n / d) for d > 0: nearest integer, ties to even
RoundDiv(n, d) ==
  LET q == n \div d
      r == n % d
  IN  IF 2 * r < d THEN q
      ELSE IF 2 * r > d THEN q + 1
      ELSE IF q % 2 = 0 THEN q ELSE q + 1

(***************************************************************************)
(* Identities of devices and buttons.                                      *)
(***************************************************************************)
PrimaryId == 0          \* instance id of js
OtherId == 1            \* instance id of any other controller
DeviceIds == {PrimaryId, OtherId}

VARIABLES
  cfg,          \* settings returned by load_config
  mon,          \* selected monitor rectangle [x, y, w, h]
  sys,          \* platform: [windows, vd (virtual desktop rect), screen]
  horizon,      \* the time up to which the run is followed
  probe,        \* what is recorded of the run: "none", "press", "hold", "gate",
                \* "events"
  base_x, base_y,
  target_x, target_y,
  active, saved_cursor, wiggle_flip,
  last_apply, last_toggle, grace_until,
  hold_inc_x, hold_dec_x, hold_inc_y, hold_dec_y,
  now, prev_time, dt,
  clock,        \* time.monotonic()
  pc,           \* position in main(): "top","drain","integrate","schedule","sleep","done"
  nev,          \* events handled so far by the current drain
  modDown,      \* state of the modifier button as get_button reads it
  modOk,        \* get_button of the modifier device returns (does not raise)
  ev,           \* the event the drain handled last in the current tick
  jit,          \* of the latest apply of the Active period: its index modulo
                \* 2 (the activation apply has index 0) and its x and y
                \* offsets from CurrentTarget
  inj,          \* cursor injections of the current tick, in order
  tr,           \* ToggleState transitions of the current tick, in order
  step,         \* <<step_x, step_y>> of the current tick's integrator
  unclamped,    \* CurrentTarget + step of the current tick, before the clamp
  honored,      \* <<press time, drain time>> of the last two honoured Toggle presses
  dropped,      \* a Toggle press of this tick was refused by the debounce
  lost,         \* a modifier-requiring press of this tick, made with the
                \* modifier held and outside the debounce, changed nothing
  captured,     \* cursor positions read at the last two activations, latest first
  flipped,      \* loop time of the latest ToggleState transition, None if none
  inj_at,       \* loop time of the latest injection made while Active
  gap,          \* time between that injection and the one before it
  run,          \* the current continuous hold of inc-x alone: its length T,
                \* the displacement it made, and whether the clamp cut it
  phase         \* of the current hold of a modifier-gated binding: 1 moved
                \* with the modifier held, 2 then stood still with it
                \* released, 3 then moved again with it held

vars == <<cfg, mon, sys, horizon, probe, base_x, base_y, target_x, target_y, active,
          saved_cursor, wiggle_flip, last_apply, last_toggle, grace_until,
          hold_inc_x, hold_dec_x, hold_inc_y, hold_dec_y, now, prev_time, dt,
          clock, pc, nev, modDown, modOk, ev, jit, inj, tr, step, unclamped,
          honored, dropped, lost, captured, flipped, inj_at, gap, run, phase>>

(***************************************************************************)
(* Settings.  A raw settings record is what the [input] section holds;     *)
(* load_config clamps the numeric ones.  x_frac / y_frac are in percent,   *)
(* None when the key is absent.                                            *)
(***************************************************************************)
load_config(raw) ==
  [raw EXCEPT !.poll_hz = Max(MinPollHz, raw.poll_hz),
              !.startup_grace_ms = Max(MinGraceMs, raw.startup_grace_ms),
              !.repeat_ms = Max(MinRepeatMs, raw.repeat_ms),
              !.nudge_velocity = Max(MinNudge, raw.nudge_velocity)]

RawA ==
  [button_toggle |-> 1, toggle_req_mod |-> FALSE,
   button_off |-> 2, off_req_mod |-> FALSE,
   incx |-> 3, incx_req_mod |-> FALSE,
   decx |-> 4, decx_req_mod |-> FALSE,
   incy |-> None, incy_req_mod |-> FALSE,
   decy |-> None, decy_req_mod |-> FALSE,
   modifier_button |-> None,
   nudge_velocity |-> 8, x_frac |-> None, y_frac |-> None, x |-> 0, y |-> 1,
   poll_hz |-> 10, startup_grace_ms |-> 0, repeat_ms |-> 200,
   wiggle_one_pixel |-> FALSE, clamp_virtual |-> FALSE,
   restore_on_off |-> FALSE]

\* modifier-gated bindings, restore, jitter, virtual clamp, base outside
RawB ==
  [RawA EXCEPT !.toggle_req_mod = TRUE, !.off_req_mod = TRUE,
               !.incx_req_mod = TRUE, !.modifier_button = 7,
               !.nudge_velocity = 4, !.repeat_ms = 150, !.x = -5,
               !.wiggle_one_pixel = TRUE, !.clamp_virtual = TRUE,
               !.restore_on_off = TRUE, !.poll_hz = 5]

\* vertical bindings, fractional position, grace period, minimum repeat
RawC ==
  [RawA EXCEPT !.incx = None, !.decx = None, !.incy = 5, !.decy = 6,
               !.decy_req_mod = TRUE, !.modifier_button = 7,
               !.x = None, !.y = None, !.x_frac = 50, !.y_frac = 50,
               !.startup_grace_ms = 100, !.repeat_ms = 0,
               !.restore_on_off = TRUE, !.button_off = None,
               !.clamp_virtual = TRUE]

\* a grace period of several ticks; inc-y and dec-y (with 'M') on one index
RawD == [RawC EXCEPT !.startup_grace_ms = 250, !.decy = 5]

\* one button index bound to Toggle (with 'M') and to inc-x (without);
\* dec-x with 'M'
RawE ==
  [RawA EXCEPT !.toggle_req_mod = TRUE, !.modifier_button = 7, !.incx = 1,
               !.decx_req_mod = TRUE]

\* jitter enabled and BASE on the right edge of the virtual desktop
RawG == [RawB EXCEPT !.x = 9]

\* no jitter and BASE on the right edge of the monitor
RawH == [RawA EXCEPT !.x = 9]

\* bindings marked 'M' and no modifier button configured
RawF == [RawB EXCEPT !.modifier_button = None]

\* monitor rectangles and platforms the program may start on
MonA == [x |-> 10, y |-> 20, w |-> 4, h |-> 3]
SysWin == [windows |-> TRUE, vd |-> [x |-> 8, y |-> 20, w |-> 7, h |-> 3],
           screen |-> <<4, 3>>]
MonP == [x |-> 0, y |-> 0, w |-> 4, h |-> 3]
SysPosix == [windows |-> FALSE, vd |-> MonP, screen |-> <<4, 3>>]

\* the installations the model starts from: <<settings, monitor, platform>>
Scenarios ==
  {<<RawA, MonA, SysWin>>, <<RawB, MonA, SysWin>>, <<RawC, MonP, SysPosix>>}

\* positions the physical cursor may be found at by get_cursor_position
CursorPositions == {<<0, 0>>, <<12, 21>>}

\* clamp_target without the upper bounds
clamp_target_no_upper(x, y, m, clamp_virtual) ==
  IF clamp_virtual
  THEN IF sys.windows
       THEN <<Max(sys.vd.x, x), Max(sys.vd.y, y)>>
       ELSE <<Max(0, x), Max(0, y)>>
  ELSE <<Max(m.x, x), Max(m.y, y)>>

\* clamp_target taking the point as an offset inside the rectangle
clamp_target_relative(x, y, m, clamp_virtual) ==
  IF clamp_virtual
  THEN IF sys.windows
       THEN <<sys.vd.x + Max(0, Min(sys.vd.w - 1, x)),
              sys.vd.y + Max(0, Min(sys.vd.h - 1, y))>>
       ELSE <<Max(0, Min(sys.screen[1] - 1, x)),
              Max(0, Min(sys.screen[2] - 1, y))>>
  ELSE <<m.x + Max(0, Min(m.w - 1, x)),
         m.y + Max(0, Min(m.h - 1, y))>>

(***************************************************************************)
(* clamp_target                                                            *)
(***************************************************************************)
clamp_target(x, y, m, clamp_virtual) ==
  IF clamp_virtual
  THEN IF sys.windows
       THEN <<Max(sys.vd.x, Min(sys.vd.x + sys.vd.w - 1, x)),
              Max(sys.vd.y, Min(sys.vd.y + sys.vd.h - 1, y))>>
       ELSE <<Max(0, Min(sys.screen[1] - 1, x)),
              Max(0, Min(sys.screen[2] - 1, y))>>
  ELSE <<Max(m.x, Min(m.x + m.w - 1, x)),
         Max(m.y, Min(m.y + m.h - 1, y))>>

\* BASE target computed from the settings inside the selected monitor
BaseTarget(c, m) ==
  LET bx == IF c.x_frac # None /\ c.y_frac # None
            THEN RoundDiv(100 * m.x + c.x_frac * m.w, 100)
            ELSE m.x + c.x
      by == IF c.x_frac # None /\ c.y_frac # None
            THEN RoundDiv(100 * m.y + c.y_frac * m.h, 100)
            ELSE m.y + c.y
  IN  clamp_target(bx, by, m, c.clamp_virtual)

(***************************************************************************)
(* Input events as pygame delivers them.                                   *)
(***************************************************************************)
Buttons == 1..7
Events ==
  [type : {"JOYBUTTONDOWN", "JOYBUTTONUP"}, instance_id : DeviceIds,
   button : Buttons]
  \cup [type : {"JOYDEVICEREMOVED"}, instance_id : DeviceIds, button : {None}]

\* the device test accepting the events of every device
event_matches_any_device(e, js_id) == e.instance_id \in DeviceIds

event_matches_device(e, js_id) == e.instance_id = js_id

(***************************************************************************)
(* The mutable locals of main(), as one record, so that the nested         *)
(* functions can be written as operators from locals to locals.            *)
(***************************************************************************)
Locals ==
  [target_x |-> target_x, target_y |-> target_y, active |-> active,
   saved_cursor |-> saved_cursor, wiggle_flip |-> wiggle_flip,
   last_apply |-> last_apply, last_toggle |-> last_toggle,
   hold_inc_x |-> hold_inc_x, hold_dec_x |-> hold_dec_x,
   hold_inc_y |-> hold_inc_y, hold_dec_y |-> hold_dec_y,
   inj |-> inj, running |-> TRUE]

SetLocals(s) ==
  /\ target_x' = s.target_x
  /\ target_y' = s.target_y
  /\ active' = s.active
  /\ saved_cursor' = s.saved_cursor
  /\ wiggle_flip' = s.wiggle_flip
  /\ last_apply' = s.last_apply
  /\ last_toggle' = s.last_toggle
  /\ hold_inc_x' = s.hold_inc_x
  /\ hold_dec_x' = s.hold_dec_x
  /\ hold_inc_y' = s.hold_inc_y
  /\ hold_dec_y' = s.hold_dec_y
  /\ inj' = s.inj

\* the modifier query answering with the button's state although the read
\* failed
modifier_is_down_unguarded ==
  IF cfg.modifier_button = None THEN FALSE ELSE modDown

\* modDown is the button's state and modOk whether dev.get_button returns it
modifier_is_down ==
  IF cfg.modifier_button = None THEN FALSE
  ELSE IF modOk THEN modDown ELSE FALSE

\* the cursor-injection primitive, called with final integer coordinates
move_cursor(s, src, x, y) ==
  [s EXCEPT !.inj = Append(@, [src |-> src, x |-> x, y |-> y,
                               act |-> s.active])]

apply_cursor(s, src) ==
  move_cursor(s, src,
              s.target_x + (IF cfg.wiggle_one_pixel /\ s.wiggle_flip
                            THEN 1 ELSE 0),
              s.target_y)

\* toggle_on without the recenter to the INI base
toggle_on_keep_target(s, c) ==
  IF s.active THEN s
  ELSE LET s1 == [s EXCEPT !.saved_cursor = c, !.active = TRUE]
           s2 == apply_cursor(s1, "activate")
       IN  [s2 EXCEPT !.last_apply = clock, !.wiggle_flip = ~s2.wiggle_flip]

\* toggle_on capturing the cursor at the first activation only
toggle_on_keep_saved(s, c) ==
  IF s.active THEN s
  ELSE LET s1 == [s EXCEPT !.saved_cursor = IF @ = <<>> THEN c ELSE @,
                           !.target_x = base_x, !.target_y = base_y,
                           !.active = TRUE]
           s2 == apply_cursor(s1, "activate")
       IN  [s2 EXCEPT !.last_apply = clock, !.wiggle_flip = ~s2.wiggle_flip]

\* c is the position get_cursor_position returns
toggle_on(s, c) ==
  IF s.active THEN s
  ELSE LET s1 == [s EXCEPT !.saved_cursor = c,
                           !.target_x = base_x, !.target_y = base_y,
                           !.active = TRUE]
           s2 == apply_cursor(s1, "activate")
       IN  [s2 EXCEPT !.last_apply = clock, !.wiggle_flip = ~s2.wiggle_flip]

\* toggle_off leaving the jitter flip-flop as the last apply left it
toggle_off_keep_flip(s) ==
  IF ~s.active THEN s
  ELSE LET s1 == [s EXCEPT !.active = FALSE]
           s2 == IF cfg.restore_on_off /\ s1.saved_cursor # <<>>
                 THEN move_cursor(s1, "restore", s1.saved_cursor[1],
                                  s1.saved_cursor[2])
                 ELSE s1
       IN  [s2 EXCEPT !.last_apply = clock]

toggle_off(s) ==
  IF ~s.active THEN s
  ELSE LET s1 == [s EXCEPT !.active = FALSE]
           s2 == IF cfg.restore_on_off /\ s1.saved_cursor # <<>>
                 THEN move_cursor(s1, "restore", s1.saved_cursor[1],
                                  s1.saved_cursor[2])
                 ELSE s1
       IN  [s2 EXCEPT !.last_apply = clock, !.wiggle_flip = FALSE]

(***************************************************************************)
(* The event loop's dispatch.                                              *)
(***************************************************************************)
\* the button dispatch without the debounce tests
button_down_no_debounce(s, b, c) ==
  IF /\ b = cfg.button_toggle
     /\ (~cfg.toggle_req_mod \/ modifier_is_down)
  THEN [(IF s.active THEN toggle_off(s) ELSE toggle_on(s, c))
          EXCEPT !.last_toggle = now]
  ELSE IF /\ cfg.button_off # None /\ b = cfg.button_off
          /\ (~cfg.off_req_mod \/ modifier_is_down)
  THEN [toggle_off(s) EXCEPT !.last_toggle = now]
  ELSE IF cfg.incx # None /\ b = cfg.incx THEN [s EXCEPT !.hold_inc_x = TRUE]
  ELSE IF cfg.decx # None /\ b = cfg.decx THEN [s EXCEPT !.hold_dec_x = TRUE]
  ELSE IF cfg.incy # None /\ b = cfg.incy THEN [s EXCEPT !.hold_inc_y = TRUE]
  ELSE IF cfg.decy # None /\ b = cfg.decy THEN [s EXCEPT !.hold_dec_y = TRUE]
  ELSE s

\* the button dispatch with the 'M' requirements of Toggle and OFF ignored
button_down_ungated(s, b, c) ==
  IF /\ b = cfg.button_toggle
     /\ now - s.last_toggle >= DebounceMs
  THEN [(IF s.active THEN toggle_off(s) ELSE toggle_on(s, c))
          EXCEPT !.last_toggle = now]
  ELSE IF /\ cfg.button_off # None /\ b = cfg.button_off
          /\ now - s.last_toggle >= DebounceMs
  THEN [toggle_off(s) EXCEPT !.last_toggle = now]
  ELSE IF cfg.incx # None /\ b = cfg.incx THEN [s EXCEPT !.hold_inc_x = TRUE]
  ELSE IF cfg.decx # None /\ b = cfg.decx THEN [s EXCEPT !.hold_dec_x = TRUE]
  ELSE IF cfg.incy # None /\ b = cfg.incy THEN [s EXCEPT !.hold_inc_y = TRUE]
  ELSE IF cfg.decy # None /\ b = cfg.decy THEN [s EXCEPT !.hold_dec_y = TRUE]
  ELSE s

\* the button dispatch with the hold flags set only if the 'M' requirement
\* of the binding is met
button_down_hold_gated(s, b, c) ==
  IF /\ b = cfg.button_toggle
     /\ (~cfg.toggle_req_mod \/ modifier_is_down)
     /\ now - s.last_toggle >= DebounceMs
  THEN [(IF s.active THEN toggle_off(s) ELSE toggle_on(s, c))
          EXCEPT !.last_toggle = now]
  ELSE IF /\ cfg.button_off # None /\ b = cfg.button_off
          /\ (~cfg.off_req_mod \/ modifier_is_down)
          /\ now - s.last_toggle >= DebounceMs
  THEN [toggle_off(s) EXCEPT !.last_toggle = now]
  ELSE IF cfg.incx # None /\ b = cfg.incx
  THEN [s EXCEPT !.hold_inc_x = ~cfg.incx_req_mod \/ modifier_is_down]
  ELSE IF cfg.decx # None /\ b = cfg.decx
  THEN [s EXCEPT !.hold_dec_x = ~cfg.decx_req_mod \/ modifier_is_down]
  ELSE IF cfg.incy # None /\ b = cfg.incy
  THEN [s EXCEPT !.hold_inc_y = ~cfg.incy_req_mod \/ modifier_is_down]
  ELSE IF cfg.decy # None /\ b = cfg.decy
  THEN [s EXCEPT !.hold_dec_y = ~cfg.decy_req_mod \/ modifier_is_down]
  ELSE s

\* a JOYBUTTONDOWN of the primary device
button_down(s, b, c) ==
  IF /\ b = cfg.button_toggle
     /\ (~cfg.toggle_req_mod \/ modifier_is_down)
     /\ now - s.last_toggle >= DebounceMs
  THEN [(IF s.active THEN toggle_off(s) ELSE toggle_on(s, c))
          EXCEPT !.last_toggle = now]
  ELSE IF /\ cfg.button_off # None /\ b = cfg.button_off
          /\ (~cfg.off_req_mod \/ modifier_is_down)
          /\ now - s.last_toggle >= DebounceMs
  THEN [toggle_off(s) EXCEPT !.last_toggle = now]
  ELSE IF cfg.incx # None /\ b = cfg.incx THEN [s EXCEPT !.hold_inc_x = TRUE]
  ELSE IF cfg.decx # None /\ b = cfg.decx THEN [s EXCEPT !.hold_dec_x = TRUE]
  ELSE IF cfg.incy # None /\ b = cfg.incy THEN [s EXCEPT !.hold_inc_y = TRUE]
  ELSE IF cfg.decy # None /\ b = cfg.decy THEN [s EXCEPT !.hold_dec_y = TRUE]
  ELSE s

\* a JOYBUTTONUP of the primary device
button_up(s, b) ==
  [s EXCEPT
     !.hold_inc_x = IF cfg.incx # None /\ b = cfg.incx THEN FALSE ELSE @,
     !.hold_dec_x = IF cfg.decx # None /\ b = cfg.decx THEN FALSE ELSE @,
     !.hold_inc_y = IF cfg.incy # None /\ b = cfg.incy THEN FALSE ELSE @,
     !.hold_dec_y = IF cfg.decy # None /\ b = cfg.decy THEN FALSE ELSE @]

\* the loop body without the startup grace test
handle_event_no_grace(s, e, c) ==
  IF e.type = "JOYBUTTONDOWN" /\ event_matches_device(e, PrimaryId)
  THEN button_down(s, e.button, c)
  ELSE IF e.type = "JOYBUTTONUP" /\ event_matches_device(e, PrimaryId)
  THEN button_up(s, e.button)
  ELSE IF e.type = "JOYDEVICEREMOVED" /\ e.instance_id = PrimaryId
  THEN [s EXCEPT !.running = FALSE]
  ELSE s

\* one iteration of "for event in pygame.event.get()"
handle_event(s, e, c) ==
  IF now < grace_until THEN s
  ELSE IF e.type = "JOYBUTTONDOWN" /\ event_matches_device(e, PrimaryId)
  THEN button_down(s, e.button, c)
  ELSE IF e.type = "JOYBUTTONUP" /\ event_matches_device(e, PrimaryId)
  THEN button_up(s, e.button)
  ELSE IF e.type = "JOYDEVICEREMOVED" /\ e.instance_id = PrimaryId
  THEN [s EXCEPT !.running = FALSE]
  ELSE s

\* <<vx, vy>> with the 'M' requirements ignored
axis_velocity_ungated(s) ==
  <<(IF s.hold_inc_x THEN 1 ELSE 0) - (IF s.hold_dec_x THEN 1 ELSE 0),
    (IF s.hold_inc_y THEN 1 ELSE 0) - (IF s.hold_dec_y THEN 1 ELSE 0)>>

\* <<vx, vy>>: the 'M' requirements are re-evaluated each tick
axis_velocity(s) ==
  <<(IF s.hold_inc_x /\ (~cfg.incx_req_mod \/ modifier_is_down)
     THEN 1 ELSE 0)
    - (IF s.hold_dec_x /\ (~cfg.decx_req_mod \/ modifier_is_down)
       THEN 1 ELSE 0),
    (IF s.hold_inc_y /\ (~cfg.incy_req_mod \/ modifier_is_down)
     THEN 1 ELSE 0)
    - (IF s.hold_dec_y /\ (~cfg.decy_req_mod \/ modifier_is_down)
       THEN 1 ELSE 0)>>

\* int(round(v * nudge_velocity * dt)), dt in ms
axis_step(v, elapsed) == RoundDiv(v * cfg.nudge_velocity * elapsed, 1000)

\* <<step_x, step_y>> of this tick (<<0, 0>> when vx = vy = 0)
tick_step(s) ==
  <<axis_step(axis_velocity(s)[1], dt), axis_step(axis_velocity(s)[2], dt)>>

\* the hold movement asserting the cursor whatever ToggleState is
integrate_always_apply(s) ==
  LET d == tick_step(s)
      t == clamp_target(s.target_x + d[1], s.target_y + d[2], mon,
                        cfg.clamp_virtual)
      s1 == [s EXCEPT !.target_x = t[1], !.target_y = t[2]]
      s2 == apply_cursor(s1, "velocity")
  IN  IF d # <<0, 0>>
      THEN [s2 EXCEPT !.last_apply = now, !.wiggle_flip = ~s2.wiggle_flip]
      ELSE s

\* the hold movement without the test that a step is non-zero
integrate_no_step_test(s) ==
  LET d == tick_step(s)
      t == clamp_target(s.target_x + d[1], s.target_y + d[2], mon,
                        cfg.clamp_virtual)
      s1 == [s EXCEPT !.target_x = t[1], !.target_y = t[2]]
      s2 == apply_cursor(s1, "velocity")
  IN  IF axis_velocity(s) # <<0, 0>>
      THEN IF s1.active
           THEN [s2 EXCEPT !.last_apply = now,
                           !.wiggle_flip = ~s2.wiggle_flip]
           ELSE s1
      ELSE s

\* the hold movement with an apply that leaves last_apply alone
integrate_keep_last_apply(s) ==
  LET d == tick_step(s)
      t == clamp_target(s.target_x + d[1], s.target_y + d[2], mon,
                        cfg.clamp_virtual)
      s1 == [s EXCEPT !.target_x = t[1], !.target_y = t[2]]
      s2 == apply_cursor(s1, "velocity")
  IN  IF d # <<0, 0>>
      THEN IF s1.active
           THEN [s2 EXCEPT !.wiggle_flip = ~s2.wiggle_flip]
           ELSE s1
      ELSE s

\* the hold movement without the clamp of the new target
integrate_no_clamp(s) ==
  LET d == tick_step(s)
      s1 == [s EXCEPT !.target_x = @ + d[1], !.target_y = @ + d[2]]
      s2 == apply_cursor(s1, "velocity")
  IN  IF d # <<0, 0>>
      THEN IF s1.active
           THEN [s2 EXCEPT !.last_apply = now,
                           !.wiggle_flip = ~s2.wiggle_flip]
           ELSE s1
      ELSE s

\* continuous hold movement of one tick
integrate(s) ==
  LET d == tick_step(s)
      t == clamp_target(s.target_x + d[1], s.target_y + d[2], mon,
                        cfg.clamp_virtual)
      s1 == [s EXCEPT !.target_x = t[1], !.target_y = t[2]]
      s2 == apply_cursor(s1, "velocity")
  IN  IF d # <<0, 0>>
      THEN IF s1.active
           THEN [s2 EXCEPT !.last_apply = now,
                           !.wiggle_flip = ~s2.wiggle_flip]
           ELSE s1
      ELSE s

\* the periodic re-apply with a strict comparison
schedule_strict(s) ==
  IF s.active /\ now - s.last_apply > cfg.repeat_ms
  THEN LET s1 == apply_cursor(s, "periodic")
       IN  [s1 EXCEPT !.last_apply = now, !.wiggle_flip = ~s1.wiggle_flip]
  ELSE s

\* periodic re-apply while ACTIVE
schedule(s) ==
  IF s.active /\ now - s.last_apply >= cfg.repeat_ms
  THEN LET s1 == apply_cursor(s, "periodic")
       IN  [s1 EXCEPT !.last_apply = now, !.wiggle_flip = ~s1.wiggle_flip]
  ELSE s

\* exactly one hold flag is set and its binding requires the modifier
GatedHold(s) ==
  \/ /\ s.hold_inc_x /\ ~s.hold_dec_x /\ ~s.hold_inc_y /\ ~s.hold_dec_y
     /\ cfg.incx_req_mod
  \/ /\ ~s.hold_inc_x /\ s.hold_dec_x /\ ~s.hold_inc_y /\ ~s.hold_dec_y
     /\ cfg.decx_req_mod
  \/ /\ ~s.hold_inc_x /\ ~s.hold_dec_x /\ s.hold_inc_y /\ ~s.hold_dec_y
     /\ cfg.incy_req_mod
  \/ /\ ~s.hold_inc_x /\ ~s.hold_dec_x /\ ~s.hold_inc_y /\ s.hold_dec_y
     /\ cfg.decy_req_mod

NoRun == [T |-> 0, moved |-> 0, clamped |-> FALSE]
NoApply == [k |-> 0, off |-> 0, dy |-> 0]

\* bookkeeping of the injections a step added to the log
Observe(s) ==
  LET n == Len(s.inj)
  IN  IF n > Len(inj) /\ s.inj[n].act
      THEN /\ inj_at' = now
           /\ gap' = IF s.inj[n].src = "activate" THEN 0 ELSE now - inj_at
           /\ jit' = [k |-> IF s.inj[n].src = "activate" THEN 0 ELSE 1 - jit.k,
                      off |-> s.inj[n].x - s.target_x,
                      dy |-> s.inj[n].y - s.target_y]
      ELSE /\ UNCHANGED <<inj_at, gap>>
           /\ jit' = IF s.active THEN jit ELSE NoApply

(***************************************************************************)
(* Startup: the state main() is in when it first reaches "while True".     *)
(***************************************************************************)
InitWith(scenarios, h, pr) ==
  /\ horizon = h
  /\ probe = pr
  /\ \E p \in scenarios :
       cfg = load_config(p[1]) /\ mon = p[2] /\ sys = p[3]
  /\ clock = 0
  /\ base_x = BaseTarget(cfg, mon)[1]
  /\ base_y = BaseTarget(cfg, mon)[2]
  /\ target_x = base_x
  /\ target_y = base_y
  /\ grace_until = clock + cfg.startup_grace_ms
  /\ last_apply = clock
  /\ active = FALSE
  /\ saved_cursor = <<>>
  /\ wiggle_flip = FALSE
  /\ last_toggle = clock
  /\ hold_inc_x = FALSE /\ hold_dec_x = FALSE
  /\ hold_inc_y = FALSE /\ hold_dec_y = FALSE
  /\ prev_time = clock
  /\ now = clock
  /\ dt = 0
  /\ pc = "top"
  /\ nev = 0
  /\ modDown = FALSE
  /\ modOk = TRUE
  /\ ev = <<>>
  /\ jit = NoApply
  /\ inj = <<>>
  /\ tr = <<>>
  /\ step = <<0, 0>>
  /\ unclamped = <<>>
  /\ honored = <<>>
  /\ dropped = FALSE
  /\ lost = FALSE
  /\ captured = <<>>
  /\ flipped = None
  /\ inj_at = 0
  /\ gap = 0
  /\ run = NoRun
  /\ phase = 0

Init == InitWith(Scenarios, MaxTime, "none")

settings == <<cfg, mon, sys, horizon, probe, base_x, base_y, grace_until>>
history == <<honored, captured, flipped, run, phase>>
cadence == <<inj_at, gap, jit>>
mods == <<modDown, modOk>>
times == <<now, prev_time, dt>>
locs == <<target_x, target_y, active, saved_cursor, wiggle_flip, last_apply,
          last_toggle, hold_inc_x, hold_dec_x, hold_inc_y, hold_dec_y>>

(***************************************************************************)
(* The loop, one action per step of its body.                              *)
(***************************************************************************)
\* now = time.monotonic(); dt = now - prev_time; prev_time = now, and the
\* event pump, after which get_button reads the modifier's current state
LoopTop ==
  /\ pc = "top"
  /\ now' = clock
  /\ dt' = clock - prev_time
  /\ prev_time' = clock
  /\ modOk' \in (IF probe = "events" /\ cfg.modifier_button # None
                  THEN BOOLEAN ELSE {TRUE})
  /\ modDown' \in (IF cfg.modifier_button = None THEN {FALSE} ELSE BOOLEAN)
  /\ ev' = <<>>
  /\ nev' = 0
  /\ inj' = <<>>
  /\ tr' = <<>>
  /\ step' = <<0, 0>>
  /\ unclamped' = <<>>
  /\ dropped' = FALSE
  /\ lost' = FALSE
  /\ pc' = "drain"
  /\ UNCHANGED <<settings, history, cadence, clock, locs>>

\* a press of the Toggle or ForceOff button of the primary device
IsPress(e) ==
  /\ e.type = "JOYBUTTONDOWN" /\ e.instance_id = PrimaryId
  /\ e.button \in {cfg.button_toggle, cfg.button_off}

\* the button's binding (Toggle or ForceOff) requires the modifier
RequiresMod(b) ==
  \/ b = cfg.button_toggle /\ cfg.toggle_req_mod
  \/ b = cfg.button_off /\ cfg.off_req_mod

\* instants at which an event drained by this tick may have been raised
PressTimes == {now - 50 * k : k \in 0..((Max(dt, 1) - 1) \div 50)}

\* One drained event e.  m and t are the modifier's state and the time at
\* the instant the button was pressed; c is the cursor position an
\* activation would read.
HandleEvent(e, m, t, c) ==
  /\ pc = "drain"
  /\ nev < MaxEvents
  /\ LET s == handle_event(Locals, e, c)
     IN  /\ SetLocals(s)
         /\ Observe(s)
         /\ pc' = IF s.running THEN "drain" ELSE "done"
         /\ tr' = IF s.active # active
                  THEN <<[to |-> s.active, button |-> e.button, mod |-> m,
                          from |-> <<target_x, target_y>>]>>
                  ELSE tr
         /\ honored' = IF s.active # active /\ e.button = cfg.button_toggle
                       THEN <<<<t, now>>>>
                            \o SubSeq(honored, 1, Min(1, Len(honored)))
                       ELSE honored
         /\ dropped' = IF /\ IsPress(e) /\ e.button = cfg.button_toggle
                          /\ now >= grace_until
                          /\ (~cfg.toggle_req_mod \/ modifier_is_down)
                          /\ s.active = active
                       THEN TRUE ELSE dropped
         /\ lost' = IF /\ IsPress(e) /\ RequiresMod(e.button) /\ m
                       /\ now >= grace_until
                       /\ now - last_toggle >= DebounceMs
                       /\ (active \/ e.button = cfg.button_toggle)
                       /\ s.active = active
                    THEN TRUE ELSE lost
         /\ run' = IF s.active # active THEN NoRun ELSE run
         /\ phase' = IF GatedHold(s) THEN phase ELSE 0
         /\ captured' = IF s.active /\ ~active
                        THEN <<c>> \o SubSeq(captured, 1, Min(1, Len(captured)))
                        ELSE captured
         /\ flipped' = IF probe = "events" /\ s.active # active
                       THEN now ELSE flipped
  /\ nev' = nev + 1
  /\ ev' = IF probe = "events" THEN <<e>> ELSE <<>>
  /\ UNCHANGED <<settings, clock, times, mods, step, unclamped>>

\* the event list is exhausted
DrainDone ==
  /\ pc = "drain"
  /\ pc' = "integrate"
  /\ ev' = <<>>
  /\ UNCHANGED <<settings, history, cadence, clock, times, locs, mods, nev,
                 inj, tr, step, unclamped, dropped, lost>>

\* inc-x alone is held and its binding does not require the modifier
SingleHold ==
  /\ hold_inc_x /\ ~hold_dec_x /\ ~hold_inc_y /\ ~hold_dec_y
  /\ ~cfg.incx_req_mod

Integrate ==
  /\ pc = "integrate"
  /\ SetLocals(integrate(Locals))
  /\ Observe(integrate(Locals))
  /\ step' = tick_step(Locals)
  /\ unclamped' = <<target_x + tick_step(Locals)[1],
                     target_y + tick_step(Locals)[2]>>
  /\ run' = IF probe = "hold" /\ SingleHold
            THEN [T |-> run.T + dt,
                  moved |-> run.moved + (target_x' - target_x),
                  clamped |-> run.clamped \/ unclamped'[1] # target_x']
            ELSE NoRun
  /\ phase' = IF probe = "gate" /\ GatedHold(Locals)
              THEN IF modDown /\ step' # <<0, 0>> /\ phase \in {0, 2}
                   THEN phase + 1
                   ELSE IF ~modDown /\ step' = <<0, 0>> /\ phase = 1
                   THEN 2
                   ELSE phase
              ELSE 0
  /\ pc' = "schedule"
  /\ UNCHANGED <<settings, honored, captured, flipped, clock, times, mods, ev,
                 nev, tr, dropped, lost>>

Schedule ==
  /\ pc = "schedule"
  /\ SetLocals(schedule(Locals))
  /\ Observe(schedule(Locals))
  /\ pc' = "sleep"
  /\ UNCHANGED <<settings, history, clock, times, mods, ev, nev, tr, step,
                 unclamped, dropped, lost>>

\* time.sleep(1.0 / poll_hz) returns after at least that long
Sleep(over) ==
  /\ pc = "sleep"
  /\ clock + 1000 \div cfg.poll_hz + over <= horizon
  /\ clock' = clock + 1000 \div cfg.poll_hz + over
  /\ pc' = "top"
  /\ UNCHANGED <<settings, history, cadence, times, locs, mods, ev, nev, inj,
                 tr, step, unclamped, dropped, lost>>

\* what the modifier's state and the time were when e was raised
ModStates == IF cfg.modifier_button = None THEN {FALSE} ELSE BOOLEAN
ModAtPress(e) == IF probe = "press" /\ IsPress(e) THEN ModStates ELSE {modDown}
TimeOfPress(e) == IF probe = "press" /\ IsPress(e) THEN PressTimes ELSE {now}

\* the cursor is read only by an activation, which only a press can cause
CursorAtPress(e) ==
  IF IsPress(e) THEN CursorPositions
  ELSE {CHOOSE c \in CursorPositions : TRUE}

Next ==
  \/ LoopTop
  \/ \E e \in Events :
       \E m \in ModAtPress(e), t \in TimeOfPress(e), c \in CursorAtPress(e) :
         HandleEvent(e, m, t, c)
  \/ DrainDone
  \/ Integrate
  \/ Schedule
  \/ \E over \in SleepOvershoot : Sleep(over)

Spec == Init /\ [][Next]_vars

(***************************************************************************)
(* The same loop with the environment's view of each press kept: the       *)
(* instant the button went down (any instant since the previous tick) and  *)
(* whether the modifier was held at that instant.                          *)
(***************************************************************************)
InitPress ==
  InitWith({<<RawA, MonA, SysWin>>, <<RawB, MonA, SysWin>>}, MaxPressTime,
           "press")

SpecPress == InitPress /\ [][Next]_vars

(***************************************************************************)
(* The same loop with the length and the displacement of each continuous   *)
(* hold of the inc-x button kept.                                          *)
(***************************************************************************)
InitHold == InitWith({<<RawA, MonA, SysWin>>}, MaxTime, "hold")

SpecHold == InitHold /\ [][Next]_vars

(***************************************************************************)
(* C1: BaseTarget never changes after startup, and whenever ToggleState    *)
(* goes from Inactive to Active, CurrentTarget equals BaseTarget when the  *)
(* transition completes, wherever earlier holds had moved it.              *)
(***************************************************************************)
C1_RecenterOnActivate ==
  [][/\ base_x' = base_x /\ base_y' = base_y
     /\ (~active /\ active' => target_x' = base_x /\ target_y' = base_y)]_vars

\* an activation that found CurrentTarget away from BaseTarget
C1_Witness ==
  /\ pc = "drain" /\ active /\ Len(tr) = 1 /\ tr[1].to
  /\ tr[1].from # <<base_x, base_y>>
  /\ <<target_x, target_y>> = <<base_x, base_y>>

(***************************************************************************)
(* C2: in every reachable state BaseTarget and CurrentTarget lie inside    *)
(* the clamp rectangle: the selected monitor in region-local mode, the     *)
(* virtual desktop in full-space mode.                                     *)
(***************************************************************************)
ClampRect == IF cfg.clamp_virtual THEN sys.vd ELSE mon

InRect(x, y, r) ==
  /\ r.x <= x /\ x <= r.x + r.w - 1
  /\ r.y <= y /\ y <= r.y + r.h - 1

C2_TargetInsideClamp ==
  /\ InRect(base_x, base_y, ClampRect)
  /\ InRect(target_x, target_y, ClampRect)

\* a tick whose integrator output had to be clamped
C2_Witness ==
  /\ pc = "schedule" /\ step # <<0, 0>>
  /\ unclamped # <<target_x, target_y>>
  /\ ~InRect(unclamped[1], unclamped[2], ClampRect)

(***************************************************************************)
(* C3 as stated: two Toggle presses whose press times are less than the    *)
(* debounce window apart are never both honoured.                          *)
(***************************************************************************)
C3_PressTimeDebounce ==
  Len(honored) = 2 => honored[1][1] - honored[2][1] >= DebounceMs

(***************************************************************************)
(* C3 amended: the debounce window is measured between the loop times of   *)
(* the ticks that drain the presses: two Toggle presses drained by ticks   *)
(* less than the debounce window apart (the same tick included) are never  *)
(* both honoured.                                                          *)
(***************************************************************************)
C3_DrainTimeDebounce ==
  Len(honored) = 2 => honored[1][2] - honored[2][2] >= DebounceMs

\* a second Toggle press refused less than 150 ms after an honoured one
C3_Witness ==
  /\ dropped /\ Len(honored) >= 1 /\ honored[1][2] = last_toggle
  /\ now - last_toggle < DebounceMs /\ now > last_toggle
  /\ active

(***************************************************************************)
(* C4 as stated: while Active, the time between consecutive cursor         *)
(* injections never exceeds the re-apply interval.                         *)
(***************************************************************************)
C4_GapWithinInterval == active => gap <= cfg.repeat_ms

(***************************************************************************)
(* C4 amended: at the end of every tick in which ToggleState is Active,    *)
(* less than the re-apply interval has passed since the last injection, so *)
(* the time between consecutive injections of an Active period is less     *)
(* than the re-apply interval plus the length of the tick that makes the   *)
(* later one.                                                              *)
(***************************************************************************)
C4_GapWithinIntervalPlusTick ==
  /\ (pc \in {"sleep", "top"} /\ active => now - inj_at < cfg.repeat_ms)
  /\ (active /\ Len(inj) > 0 => gap < cfg.repeat_ms + dt)

\* a periodic apply that came later than one interval after the previous one
C4_Witness ==
  /\ pc = "sleep" /\ active /\ Len(inj) = 1 /\ inj[1].src = "periodic"
  /\ gap > cfg.repeat_ms /\ cfg.repeat_ms > MinRepeatMs

(***************************************************************************)
(* C5: no injection is made by the integrator or the periodic scheduler    *)
(* while ToggleState is Inactive; an injection made while Inactive is the  *)
(* restore of the Active -> Inactive transition of that tick, and there is *)
(* at most one.                                                            *)
(***************************************************************************)
InactiveInjections == {i \in 1..Len(inj) : ~inj[i].act}

C5_NoInjectionWhileInactive ==
  /\ \A i \in 1..Len(inj) :
       inj[i].src \in {"velocity", "periodic"} => inj[i].act /\ active
  /\ \A i \in InactiveInjections :
       inj[i].src = "restore" /\ Len(tr) = 1 /\ ~tr[1].to
  /\ Cardinality(InactiveInjections) <= 1

\* an Inactive tick in which a held button moved CurrentTarget
C5_Witness ==
  /\ pc = "sleep" /\ ~active /\ tr = <<>> /\ step # <<0, 0>>
  /\ <<target_x, target_y>> # <<base_x, base_y>>
  /\ last_apply < now /\ now - last_apply >= cfg.repeat_ms
  /\ inj = <<>>

(***************************************************************************)
(* C6: a tick with an Active -> Inactive transition injects exactly once,  *)
(* the cursor position read at the most recent activation, if              *)
(* restore-on-deactivate is configured, and does not inject at all if it   *)
(* is not.                                                                 *)
(***************************************************************************)
C6_RestoreOnDeactivate ==
  Len(tr) = 1 /\ ~tr[1].to =>
    inj = IF cfg.restore_on_off
          THEN <<[src |-> "restore", x |-> captured[1][1],
                  y |-> captured[1][2], act |-> FALSE]>>
          ELSE <<>>

\* the second deactivation, restoring a position that differs from the one
\* read at the first activation and from CurrentTarget
C6_Witness ==
  /\ Len(tr) = 1 /\ ~tr[1].to /\ cfg.restore_on_off /\ Len(inj) = 1
  /\ Len(captured) = 2 /\ captured[1] # captured[2]
  /\ <<inj[1].x, inj[1].y>> = captured[1]
  /\ <<inj[1].x, inj[1].y>> # <<target_x, target_y>>

(***************************************************************************)
(* C7: while inc-x alone is held, its binding not requiring the modifier,  *)
(* and the clamp has not cut the movement, CurrentTarget has moved on the  *)
(* x axis by round(nudge_velocity * T), T being the total time of the      *)
(* ticks of the hold, however T is divided into ticks.                     *)
(***************************************************************************)
C7_FrameRateIndependent ==
  probe = "hold" /\ ~run.clamped =>
    run.moved = RoundDiv(cfg.nudge_velocity * run.T, 1000)

(***************************************************************************)
(* C8: in a tick whose two per-axis deltas are zero the integrator leaves  *)
(* CurrentTarget, the injection log, last_apply and the jitter flip-flop   *)
(* as they are.                                                            *)
(***************************************************************************)
C8_ZeroDeltaNoEffect ==
  [][pc = "integrate" /\ pc' = "schedule" /\ step' = <<0, 0>> =>
       /\ target_x' = target_x /\ target_y' = target_y
       /\ inj' = inj
       /\ last_apply' = last_apply
       /\ wiggle_flip' = wiggle_flip]_vars

\* Active, inc-x and dec-x both held and contributing: zero delta, and the
\* periodic scheduler alone applied in that tick
C8_Witness ==
  /\ pc = "sleep" /\ active /\ step = <<0, 0>>
  /\ hold_inc_x /\ hold_dec_x
  /\ (~cfg.incx_req_mod \/ modifier_is_down)
  /\ (~cfg.decx_req_mod \/ modifier_is_down)
  /\ Len(inj) = 1 /\ inj[1].src = "periodic"
  /\ <<inj[1].x, inj[1].y>> = <<target_x, target_y>>

(***************************************************************************)
(* The same loop with the phases of each hold of a modifier-gated binding  *)
(* kept.                                                                   *)
(***************************************************************************)
InitGate ==
  InitWith({<<RawB, MonA, SysWin>>, <<RawC, MonP, SysPosix>>}, MaxTime, "gate")

SpecGate == InitGate /\ [][Next]_vars

(***************************************************************************)
(* C9: in a tick in which a directional button whose binding requires the  *)
(* modifier is the only one held, the integrator's step is zero and        *)
(* CurrentTarget stays where it was if the modifier is not held, and is    *)
(* the full step of that binding if it is, the hold flag being set in both *)
(* cases: no release of the directional button is needed to stop the       *)
(* movement, and none to resume it.                                        *)
(***************************************************************************)
GatedDirection ==
  IF hold_inc_x THEN <<1, 0>>
  ELSE IF hold_dec_x THEN <<-1, 0>>
  ELSE IF hold_inc_y THEN <<0, 1>>
  ELSE <<0, -1>>

C9_ModifierGatesHold ==
  pc = "schedule" /\ GatedHold(Locals) =>
    IF modDown
    THEN step = <<RoundDiv(GatedDirection[1] * cfg.nudge_velocity * dt, 1000),
                  RoundDiv(GatedDirection[2] * cfg.nudge_velocity * dt, 1000)>>
    ELSE /\ step = <<0, 0>>
         /\ unclamped = <<target_x, target_y>>
         /\ \A i \in 1..Len(inj) : inj[i].src # "velocity"

\* one hold that moved, stood still while the modifier was released, and
\* moved again once it was held again
C9_Witness ==
  /\ pc = "schedule" /\ phase = 3 /\ GatedHold(Locals) /\ modDown
  /\ step # <<0, 0>> /\ unclamped = <<target_x, target_y>>

(***************************************************************************)
(* C10 as stated: a transition caused by a press whose binding requires    *)
(* the modifier happens only if the modifier was held at the instant of    *)
(* the press, and no such press made with the modifier held is lost.       *)
(***************************************************************************)
C10_ModifierAtPress ==
  /\ (Len(tr) = 1 /\ RequiresMod(tr[1].button) => tr[1].mod)
  /\ ~lost

(***************************************************************************)
(* C10 amended: a transition caused by a press whose binding requires the  *)
(* modifier happens only if the modifier reads as held in the tick that    *)
(* drains the press, whatever its state was at the instant of the press.   *)
(***************************************************************************)
C10_ModifierAtDrain ==
  Len(tr) = 1 /\ RequiresMod(tr[1].button) => modifier_is_down

\* a press made without the modifier that fired, the modifier having been
\* pressed before the tick drained it
C10_Witness ==
  /\ Len(tr) = 1 /\ RequiresMod(tr[1].button) /\ ~tr[1].mod
  /\ modifier_is_down /\ pc = "drain"

(***************************************************************************)
(* The same loop with the event handled last by the drain kept, and with   *)
(* a modifier device that may fail to be read.                             *)
(***************************************************************************)
InitEvents ==
  InitWith({<<RawD, MonP, SysPosix>>, <<RawE, MonA, SysWin>>,
            <<RawF, MonA, SysWin>>}, MaxEventTime, "events")

SpecEvents == InitEvents /\ [][Next]_vars

\* the step handles one event of the drain
Drains == pc = "drain" /\ nev' = nev + 1 /\ Len(ev') = 1

(***************************************************************************)
(* C11: a button event drained by a tick whose time lies inside the        *)
(* startup grace period changes nothing of ToggleState, the hold flags,    *)
(* CurrentTarget, SavedCursor, last_apply, the jitter flip-flop and the    *)
(* debounce clock and injects nothing; and as long as the tick time lies   *)
(* inside the grace period ToggleState is Inactive, no hold flag is set    *)
(* and no injection has been made.                                         *)
(***************************************************************************)
C11_GraceDiscards ==
  /\ [](now < grace_until =>
         /\ ~active /\ inj = <<>> /\ tr = <<>>
         /\ ~hold_inc_x /\ ~hold_dec_x /\ ~hold_inc_y /\ ~hold_dec_y
         /\ <<target_x, target_y>> = <<base_x, base_y>>)
  /\ [][Drains /\ now < grace_until /\ ev'[1].type # "JOYDEVICEREMOVED" =>
         UNCHANGED <<locs, inj, tr>>]_vars

\* a Toggle press of the primary device discarded by a later tick of the
\* grace period
C11_Witness ==
  /\ pc = "drain" /\ 0 < now /\ now < grace_until
  /\ ev = <<[type |-> "JOYBUTTONDOWN", instance_id |-> PrimaryId,
             button |-> cfg.button_toggle]>>
  /\ ~cfg.toggle_req_mod /\ ~active

(***************************************************************************)
(* C12: a tick that drains a device-removal notification of the primary    *)
(* device, at whatever time, ends the loop in that step, after which no    *)
(* injection is made; a removal notification of another device does not    *)
(* end the loop.                                                           *)
(***************************************************************************)
C12_RemovalTerminates ==
  [][/\ (Drains /\ ev'[1].type = "JOYDEVICEREMOVED" =>
           (pc' = "done") = (ev'[1].instance_id = PrimaryId))
     /\ (pc = "done" => pc' = "done" /\ inj' = inj)]_vars

\* the step handles a press of button b of the primary device, outside the
\* grace period
DrainsPress(b) ==
  /\ Drains /\ now >= grace_until
  /\ ev'[1] = [type |-> "JOYBUTTONDOWN", instance_id |-> PrimaryId, button |-> b]

(***************************************************************************)
(* C13: a press of the ForceOff button (not also the Toggle button) never  *)
(* takes ToggleState from Inactive to Active, and while Inactive such a    *)
(* press whose modifier requirement is met changes nothing of ToggleState, *)
(* CurrentTarget, SavedCursor, last_apply, the jitter flip-flop and the    *)
(* debounce clock and injects nothing.                                     *)
(***************************************************************************)
C13_ForceOffNoOpWhileInactive ==
  [][cfg.button_off # None /\ cfg.button_off # cfg.button_toggle
       /\ DrainsPress(cfg.button_off) /\ ~active
       /\ (~cfg.off_req_mod \/ modifier_is_down) =>
         /\ ~active'
         /\ UNCHANGED <<target_x, target_y, saved_cursor, last_apply,
                        wiggle_flip, last_toggle>>
         /\ inj' = inj /\ tr' = tr]_vars

(***************************************************************************)
(* Startup from the settings as the [input] section gives them: load_config *)
(* ends the process for the settings it rejects, and main() goes on to the *)
(* loop with the others.                                                   *)
(***************************************************************************)
use_frac(raw) == raw.x_frac # None /\ raw.y_frac # None
use_px(raw) == raw.x # None /\ raw.y # None

\* load_config reaches one of its sys.exit(1)
config_fatal(raw) ==
  \/ raw.button_toggle = None
  \/ ~(use_frac(raw) \/ use_px(raw))

RawNoToggle == [RawA EXCEPT !.button_toggle = None]
RawNoPosition == [RawA EXCEPT !.x = None, !.y = None]
RawHalfPosition == [RawA EXCEPT !.y = None, !.x_frac = 50]
RawBothPositions == [RawC EXCEPT !.x = 1, !.y = 1]

RawSameTuple == [RawE EXCEPT !.decx = 1, !.decx_req_mod = TRUE]

RawConfigs ==
  {RawA, RawSameTuple, RawNoToggle, RawNoPosition, RawHalfPosition,
   RawBothPositions}

InitConfig ==
  /\ horizon = MaxConfigTime
  /\ probe = "none"
  /\ cfg \in RawConfigs
  /\ mon = MonA /\ sys = SysWin
  /\ clock = 0
  /\ base_x = 0 /\ base_y = 0
  /\ target_x = 0 /\ target_y = 0
  /\ grace_until = 0
  /\ last_apply = clock
  /\ active = FALSE
  /\ saved_cursor = <<>>
  /\ wiggle_flip = FALSE
  /\ last_toggle = clock
  /\ hold_inc_x = FALSE /\ hold_dec_x = FALSE
  /\ hold_inc_y = FALSE /\ hold_dec_y = FALSE
  /\ prev_time = clock
  /\ now = clock
  /\ dt = 0
  /\ pc = "start"
  /\ nev = 0
  /\ modDown = FALSE
  /\ modOk = TRUE
  /\ ev = <<>>
  /\ jit = NoApply
  /\ inj = <<>>
  /\ tr = <<>>
  /\ step = <<0, 0>>
  /\ unclamped = <<>>
  /\ honored = <<>>
  /\ dropped = FALSE
  /\ lost = FALSE
  /\ captured = <<>>
  /\ flipped = None
  /\ inj_at = 0
  /\ gap = 0
  /\ run = NoRun
  /\ phase = 0

\* cfg = load_config(CONFIG_FILE) and the rest of main() down to the loop
Startup ==
  /\ pc = "start"
  /\ IF config_fatal(cfg)
     THEN /\ pc' = "fatal"
          /\ UNCHANGED <<cfg, base_x, base_y, target_x, target_y, grace_until>>
     ELSE /\ cfg' = load_config(cfg)
          /\ base_x' = BaseTarget(cfg', mon)[1]
          /\ base_y' = BaseTarget(cfg', mon)[2]
          /\ target_x' = base_x'
          /\ target_y' = base_y'
          /\ grace_until' = clock + cfg'.startup_grace_ms
          /\ pc' = "top"
  /\ UNCHANGED <<mon, sys, horizon, probe, active, saved_cursor, wiggle_flip,
                 last_apply, last_toggle, hold_inc_x, hold_dec_x, hold_inc_y,
                 hold_dec_y, history, cadence, clock, times, mods, ev, nev,
                 inj, tr, step, unclamped, dropped, lost>>

NextConfig == Startup \/ Next

SpecConfig == InitConfig /\ [][NextConfig]_vars

\* the <<button index, requires-modifier>> tuples of the bound actions
Bindings ==
  [a \in {"toggle", "off", "incx", "decx", "incy", "decy"} |->
     CASE a = "toggle" -> <<cfg.button_toggle, cfg.toggle_req_mod>>
       [] a = "off" -> <<cfg.button_off, cfg.off_req_mod>>
       [] a = "incx" -> <<cfg.incx, cfg.incx_req_mod>>
       [] a = "decx" -> <<cfg.decx, cfg.decx_req_mod>>
       [] a = "incy" -> <<cfg.incy, cfg.incy_req_mod>>
       [] a = "decy" -> <<cfg.decy, cfg.decy_req_mod>>]

AmbiguousBindings ==
  \E a, b \in DOMAIN Bindings :
    a # b /\ Bindings[a][1] # None /\ Bindings[a] = Bindings[b]

(***************************************************************************)
(* C14: the loop is entered only with settings that bind Toggle, give      *)
(* exactly one of the fractional and the pixel position, and bind no two   *)
(* actions to the same <<button index, requires-modifier>> tuple.          *)
(***************************************************************************)
C14_ConsistentConfig ==
  pc \notin {"start", "fatal"} =>
    /\ cfg.button_toggle # None
    /\ use_frac(cfg) # use_px(cfg)
    /\ ~AmbiguousBindings

(***************************************************************************)
(* clamp_target on its own: a candidate point, as main() computes one for  *)
(* BASE before clamping it, is clamped and the result is clamped again.    *)
(***************************************************************************)
MonOne == [x |-> -3, y |-> 2, w |-> 1, h |-> 1]
SysWinOne == [windows |-> TRUE, vd |-> [x |-> -2, y |-> -2, w |-> 1, h |-> 1],
              screen |-> <<1, 1>>]
SysPosixOne == [windows |-> FALSE, vd |-> [x |-> 0, y |-> 0, w |-> 1, h |-> 1],
                screen |-> <<1, 1>>]

Regions == {MonA, MonP, MonOne}
Platforms == {SysWin, SysPosix, SysWinOne, SysPosixOne}

InitClamp ==
  /\ horizon = 0
  /\ probe = "none"
  /\ \E v \in BOOLEAN : cfg = load_config([RawA EXCEPT !.clamp_virtual = v])
  /\ mon \in Regions /\ sys \in Platforms
  /\ clock = 0
  /\ base_x \in -MaxCoord..MaxCoord /\ base_y \in -MaxCoord..MaxCoord
  /\ target_x = base_x /\ target_y = base_y
  /\ grace_until = 0
  /\ last_apply = clock
  /\ active = FALSE
  /\ saved_cursor = <<>>
  /\ wiggle_flip = FALSE
  /\ last_toggle = clock
  /\ hold_inc_x = FALSE /\ hold_dec_x = FALSE
  /\ hold_inc_y = FALSE /\ hold_dec_y = FALSE
  /\ prev_time = clock
  /\ now = clock
  /\ dt = 0
  /\ pc = "clamp"
  /\ nev = 0
  /\ modDown = FALSE
  /\ modOk = TRUE
  /\ ev = <<>>
  /\ jit = NoApply
  /\ inj = <<>>
  /\ tr = <<>>
  /\ step = <<0, 0>>
  /\ unclamped = <<>>
  /\ honored = <<>>
  /\ dropped = FALSE
  /\ lost = FALSE
  /\ captured = <<>>
  /\ flipped = None
  /\ inj_at = 0
  /\ gap = 0
  /\ run = NoRun
  /\ phase = 0

\* x, y = clamp_target(x, y, mon, clamp_virtual); unclamped keeps the argument
ClampStep ==
  /\ pc \in {"clamp", "clamped"}
  /\ unclamped' = <<target_x, target_y>>
  /\ target_x' = clamp_target(target_x, target_y, mon, cfg.clamp_virtual)[1]
  /\ target_y' = clamp_target(target_x, target_y, mon, cfg.clamp_virtual)[2]
  /\ pc' = IF pc = "clamp" THEN "clamped" ELSE "reclamped"
  /\ UNCHANGED <<settings, history, cadence, clock, times, mods, ev, nev, inj,
                 tr, step, dropped, lost, active, saved_cursor, wiggle_flip,
                 last_apply, last_toggle, hold_inc_x, hold_dec_x, hold_inc_y,
                 hold_dec_y>>

SpecClamp == InitClamp /\ [][ClampStep]_vars

(***************************************************************************)
(* C15: clamping the result of a clamp again, in the same mode and with    *)
(* the same geometry, gives that result back, whatever the point and the   *)
(* geometry (width and height at least 1).                                 *)
(***************************************************************************)
C15_ClampIdempotent ==
  pc = "reclamped" => <<target_x, target_y>> = unclamped

\* a point the clamp moved on both axes into the virtual desktop, clamped
\* again
C15_Witness ==
  /\ pc = "reclamped" /\ cfg.clamp_virtual /\ sys.windows
  /\ unclamped[1] # base_x /\ unclamped[2] # base_y
  /\ <<target_x, target_y>> = unclamped

(***************************************************************************)
(* C16: the scheduler step makes a periodic apply exactly when ToggleState *)
(* is Active and at least the re-apply interval has passed since the most  *)
(* recent apply of any kind, whose time last_apply holds while Active; so  *)
(* a periodic apply never comes less than the interval after the apply     *)
(* before it and never in a tick that made an activation or velocity       *)
(* apply.                                                                  *)
(***************************************************************************)
PeriodicApplied ==
  /\ Len(inj') = Len(inj) + 1
  /\ inj'[Len(inj')].src = "periodic"

C16_PeriodicExactlyWhenDue ==
  /\ [](active => last_apply = inj_at)
  /\ [](\A i \in 1..Len(inj) : inj[i].src = "periodic" =>
          /\ i = Len(inj) /\ gap >= cfg.repeat_ms
          /\ \A j \in 1..Len(inj) :
               j # i => inj[j].src \notin {"activate", "velocity"})
  /\ [][pc = "schedule" /\ pc' = "sleep" =>
         /\ PeriodicApplied = (active /\ now - inj_at >= cfg.repeat_ms)
         /\ (~PeriodicApplied => inj' = inj)]_vars

\* a periodic apply made exactly one interval after the apply before it, in
\* an Active period in which a hold has moved CurrentTarget
C16_Witness ==
  /\ pc = "sleep" /\ active /\ Len(inj) = 1 /\ inj[1].src = "periodic"
  /\ gap = cfg.repeat_ms /\ cfg.repeat_ms > MinRepeatMs
  /\ <<target_x, target_y>> # <<base_x, base_y>>

(***************************************************************************)
(* C17: with jitter enabled, the applies of one Active period, counted as  *)
(* one sequence over activation, velocity and periodic applies, inject     *)
(* CurrentTarget with the x offsets 0, +1, 0, +1, ..., the activation      *)
(* apply having offset 0; y is never offset; with jitter disabled every    *)
(* apply injects CurrentTarget itself.                                     *)
(***************************************************************************)
C17_JitterAlternates ==
  /\ jit.dy = 0
  /\ jit.off = IF cfg.wiggle_one_pixel THEN jit.k ELSE 0

\* with jitter enabled, a periodic apply with offset 0 that is not the
\* first apply of an Active period in which a hold has moved CurrentTarget
C17_Witness ==
  /\ cfg.wiggle_one_pixel /\ active /\ pc = "sleep"
  /\ Len(inj) = 1 /\ inj[1].src = "periodic"
  /\ jit.k = 0 /\ inj[1].x = target_x
  /\ <<target_x, target_y>> # <<base_x, base_y>>

\* the step handles a release of button b of the primary device, outside
\* the grace period
DrainsRelease(b) ==
  /\ Drains /\ now >= grace_until
  /\ ev'[1] = [type |-> "JOYBUTTONUP", instance_id |-> PrimaryId, button |-> b]

Directions == {"incx", "decx", "incy", "decy"}

\* the button index of each directional binding
DirButton ==
  [d \in Directions |->
     CASE d = "incx" -> cfg.incx [] d = "decx" -> cfg.decx
       [] d = "incy" -> cfg.incy [] d = "decy" -> cfg.decy]

HoldFlags ==
  [d \in Directions |->
     CASE d = "incx" -> hold_inc_x [] d = "decx" -> hold_dec_x
       [] d = "incy" -> hold_inc_y [] d = "decy" -> hold_dec_y]

\* the first directional binding, in the order the dispatch tests them,
\* bound to button b
FirstDir(b) ==
  IF cfg.incx = b THEN "incx"
  ELSE IF cfg.decx = b THEN "decx"
  ELSE IF cfg.incy = b THEN "incy"
  ELSE IF cfg.decy = b THEN "decy"
  ELSE "none"

(***************************************************************************)
(* C18 as stated: a press of a directional binding's button sets that      *)
(* binding's hold flag and a release clears it, whatever else the button   *)
(* is bound to and whatever the modifier, ToggleState and the debounce     *)
(* clock are.                                                              *)
(***************************************************************************)
C18_EveryBindingFollowsEdges ==
  [][\A d \in Directions :
       DirButton[d] # None =>
         /\ (DrainsPress(DirButton[d]) => HoldFlags[d]')
         /\ (DrainsRelease(DirButton[d]) => ~HoldFlags[d]')]_vars

(***************************************************************************)
(* C18 amended: a press that does not fire the Toggle or ForceOff branch   *)
(* sets the hold flag of the first directional binding (in the order       *)
(* inc-x, dec-x, inc-y, dec-y) bound to the button and leaves the other    *)
(* flags alone; a press that fires Toggle or ForceOff sets no hold flag; a *)
(* release clears the flag of every directional binding bound to the       *)
(* button.  None of this depends on the modifier's state, the binding's    *)
(* requires-modifier flag or ToggleState.                                  *)
(***************************************************************************)
C18_FirstMatchFollowsEdges ==
  [][\A b \in Buttons :
       /\ (DrainsPress(b) =>
            HoldFlags' = IF last_toggle' # last_toggle \/ FirstDir(b) = "none"
                         THEN HoldFlags
                         ELSE [HoldFlags EXCEPT ![FirstDir(b)] = TRUE])
       /\ (DrainsRelease(b) =>
            HoldFlags' = [d \in Directions |->
                            IF DirButton[d] = b THEN FALSE
                            ELSE HoldFlags[d]])]_vars

\* a press of the button shared by Toggle and inc-x, drained while Active
\* with the modifier held and inside the debounce window: the flag is set
C18_Witness ==
  /\ pc = "drain" /\ now >= grace_until
  /\ ev = <<[type |-> "JOYBUTTONDOWN", instance_id |-> PrimaryId,
             button |-> cfg.incx]>>
  /\ cfg.incx = cfg.button_toggle /\ cfg.toggle_req_mod /\ modifier_is_down
  /\ active /\ tr = <<>> /\ now - last_toggle < DebounceMs
  /\ hold_inc_x

\* the modifier query has nothing to read
NoModifier == cfg.modifier_button = None \/ ~modOk

\* b is bound to Toggle or ForceOff, and only with the modifier required
OnlyWithModifier(b) ==
  /\ b \in {cfg.button_toggle, cfg.button_off}
  /\ (b = cfg.button_toggle => cfg.toggle_req_mod)
  /\ (b = cfg.button_off => cfg.off_req_mod)

\* <<vx, vy>> of the held directions whose binding does not require the
\* modifier
UngatedVelocity ==
  <<(IF hold_inc_x /\ ~cfg.incx_req_mod THEN 1 ELSE 0)
    - (IF hold_dec_x /\ ~cfg.decx_req_mod THEN 1 ELSE 0),
    (IF hold_inc_y /\ ~cfg.incy_req_mod THEN 1 ELSE 0)
    - (IF hold_dec_y /\ ~cfg.decy_req_mod THEN 1 ELSE 0)>>

(***************************************************************************)
(* C19: when no modifier button is configured or the modifier device       *)
(* cannot be read, the modifier query answers not-held: a press of a       *)
(* button bound to Toggle or ForceOff only with the modifier required      *)
(* causes no transition and leaves the debounce clock alone, the held      *)
(* directions whose binding requires the modifier add nothing to the       *)
(* tick's step, and the loop goes on.                                      *)
(***************************************************************************)
C19_NoModifierInert ==
  /\ [](NoModifier => ~modifier_is_down)
  /\ [](NoModifier /\ pc = "schedule" =>
          step = <<axis_step(UngatedVelocity[1], dt),
                   axis_step(UngatedVelocity[2], dt)>>)
  /\ [][\A b \in Buttons :
         NoModifier /\ OnlyWithModifier(b) /\ DrainsPress(b) =>
           /\ active' = active /\ last_toggle' = last_toggle
           /\ inj' = inj /\ pc' = "drain"]_vars

\* a Toggle press that the debounce would let through, drained while the
\* modifier button is held but its device cannot be read
C19_Witness ==
  /\ pc = "drain" /\ cfg.modifier_button # None /\ ~modOk /\ modDown
  /\ ev = <<[type |-> "JOYBUTTONDOWN", instance_id |-> PrimaryId,
             button |-> cfg.button_toggle]>>
  /\ cfg.toggle_req_mod /\ now - last_toggle >= DebounceMs
  /\ tr = <<>> /\ ~active

(***************************************************************************)
(* C20: a Toggle press of the primary device, drained outside the grace    *)
(* period with its modifier requirement met, flips ToggleState whenever no *)
(* ToggleState transition has happened since startup or the latest one is  *)
(* at least the debounce interval old.                                     *)
(***************************************************************************)
C20_DebounceFromLastTransition ==
  [][/\ DrainsPress(cfg.button_toggle)
     /\ (~cfg.toggle_req_mod \/ modifier_is_down)
     /\ (flipped = None \/ now - flipped >= DebounceMs)
     => active' # active]_vars

(***************************************************************************)
(* The loop started with the target on the right edge of the clamp         *)
(* rectangle, with and without jitter.                                     *)
(***************************************************************************)
InitEdge ==
  InitWith({<<RawG, MonA, SysWin>>, <<RawH, MonA, SysWin>>}, MaxTime, "none")

SpecEdge == InitEdge /\ [][Next]_vars

(***************************************************************************)
(* C21 as stated: every point injected while ToggleState is Active (by the *)
(* activation, a velocity apply or a periodic apply, jitter included) lies *)
(* inside the clamp rectangle.                                             *)
(***************************************************************************)
C21_InjectionsInsideClamp ==
  \A i \in 1..Len(inj) :
    inj[i].act => InRect(inj[i].x, inj[i].y, ClampRect)

(***************************************************************************)
(* C21 amended: every point injected while ToggleState is Active has its y *)
(* inside the clamp rectangle and its x between the rectangle's left edge  *)
(* and its right edge, plus one pixel if jitter is enabled: the offset is  *)
(* added to the clamped CurrentTarget and is not clamped itself.           *)
(***************************************************************************)
C21_InjectionsWithinJitter ==
  \A i \in 1..Len(inj) :
    inj[i].act =>
      /\ ClampRect.y <= inj[i].y /\ inj[i].y <= ClampRect.y + ClampRect.h - 1
      /\ ClampRect.x <= inj[i].x
      /\ inj[i].x <= ClampRect.x + ClampRect.w - 1
                       + (IF cfg.wiggle_one_pixel THEN 1 ELSE 0)

\* a periodic apply, CurrentTarget on the right edge, injecting the pixel
\* beyond it
C21_Witness ==
  /\ pc = "sleep" /\ active /\ cfg.wiggle_one_pixel
  /\ Len(inj) = 1 /\ inj[1].src = "periodic" /\ inj[1].act
  /\ target_x = ClampRect.x + ClampRect.w - 1
  /\ inj[1].x = target_x + 1

(***************************************************************************)
(* C22: a button press or release of a device other than the primary one,  *)
(* whatever its button index, leaves ToggleState, the hold flags,          *)
(* CurrentTarget, SavedCursor, last_apply, the jitter flip-flop and the    *)
(* debounce clock as they are, injects nothing and does not end the loop.  *)
(***************************************************************************)
C22_OtherDeviceIgnored ==
  [][/\ Drains
     /\ ev'[1].type \in {"JOYBUTTONDOWN", "JOYBUTTONUP"}
     /\ ev'[1].instance_id # PrimaryId
     => UNCHANGED <<locs, inj, tr>> /\ pc' = "drain"]_vars

\* a press of the Toggle button's index on another device, drained when a
\* press of the primary device would have activated
C22_Witness ==
  /\ pc = "drain" /\ now >= grace_until
  /\ ev = <<[type |-> "JOYBUTTONDOWN", instance_id |-> OtherId,
             button |-> cfg.button_toggle]>>
  /\ (~cfg.toggle_req_mod \/ modifier_is_down)
  /\ now - last_toggle >= DebounceMs
  /\ ~active /\ tr = <<>>

====
